---- MODULE Spec2Model ----
(***************************************************************************)
(* Model of VideoDurationTrim.trim_video_by_duration                       *)
(* (src/nodes/videoDurationTrim.py).                                       *)
(*                                                                         *)
(* Paths are strings, modelled as sequences of one-character strings so    *)
(* that str.startswith / str.endswith / str.strip / str.lower are computed *)
(* character by character, as Python computes them.  Long literal names of *)
(* the source are abbreviated (the abbreviation is given next to each).    *)
(* The file system is the pair (files, dirs) of existing regular files and *)
(* existing directories.                                                   *)
(***************************************************************************)
EXTENDS Integers, Sequences, FiniteSets, TLC

(* ------------------------------ bounds ------------------------------ *)

\* Number of invocation slots (concurrent calls of the node function).
NumInv == 2

\* Number of characters mkdtemp may draw its random suffix from.
NumSuffix == 2

(* --------------------------- string helpers -------------------------- *)

Sep == "/"

None == <<>>

\* A local variable that was never assigned (reading it raises UnboundLocalError).
Unbound == <<"?">>

\* str.startswith
StartsWith(s, p) == Len(p) <= Len(s) /\ SubSeq(s, 1, Len(p)) = p

\* str.endswith
EndsWith(s, p) == Len(p) <= Len(s) /\ SubSeq(s, Len(s) - Len(p) + 1, Len(s)) = p

LowerChar(c) ==
    CASE c = "C" -> "c"
      [] c = "M" -> "m"
      [] c = "P" -> "p"
      [] c = "O" -> "o"
      [] OTHER -> c

\* str.lower
Lower(s) == [k \in 1..Len(s) |-> LowerChar(s[k])]

RECURSIVE LStrip(_)
LStrip(s) == IF s # <<>> /\ s[1] = " " THEN LStrip(Tail(s)) ELSE s

RECURSIVE RStrip(_)
RStrip(s) == IF s # <<>> /\ s[Len(s)] = " " THEN RStrip(SubSeq(s, 1, Len(s) - 1)) ELSE s

\* str.strip
Strip(s) == RStrip(LStrip(s))

\* Python truthiness of `output_path and output_path.strip()`
IsNonBlank(s) == s # <<>> /\ Strip(s) # <<>>

\* Position of the last separator of p (0 when p has none).
LastSep(p) ==
    LET S == {k \in 1..Len(p) : p[k] = Sep}
    IN  IF S = {} THEN 0 ELSE CHOOSE k \in S : \A j \in S : j <= k

\* os.path.dirname
Dirname(p) ==
    LET k == LastSep(p)
    IN  IF k = 0 THEN <<>> ELSE IF k = 1 THEN <<Sep>> ELSE SubSeq(p, 1, k - 1)

\* os.path.basename
Basename(p) == SubSeq(p, LastSep(p) + 1, Len(p))

\* os.path.join(d, n) for a relative n
Join(d, n) == d \o <<Sep>> \o n

\* The directories os.makedirs(p) has to create or find: p and its ancestors.
SelfAndAncestors(p) ==
    {SubSeq(p, 1, k) : k \in {j \in 2..Len(p) : j = Len(p) \/ p[j + 1] = Sep}}

\* True containment: f lies below directory d.
Inside(f, d) == StartsWith(f, d \o <<Sep>>)

(* ------------------------- environment ------------------------------ *)

\* tempfile.gettempdir()
SysTemp == <<"/", "t">>

\* folder_paths.get_temp_directory()
ComfyTemp == <<"/", "c">>

\* folder_paths.get_output_directory()
ComfyOut == <<"/", "g">>

\* os.getcwd()
Cwd == <<"/", "d">>

\* prefix="comfyui_video_trim_" (abbreviated)
SysPrefix == <<"w">>

\* prefix="video_trim_" (abbreviated)
ComfyPrefix == <<"v">>

\* The alphabet of mkdtemp's random suffix; every suffix has the same length.
SuffixAlphabet == <<"a", "b", "e", "h", "k", "n">>

Suffixes == {<<SuffixAlphabet[k]>> : k \in 1..NumSuffix}

\* "input_video.mp4" (abbreviated)
InputVideoName == <<"i", ".", "m", "p", "4">>

\* "video_trim" (abbreviated)
VideoSubdirName == <<"s">>

\* "trimmed_" (abbreviated)
TrimmedPrefix == <<"r", "_">>

\* The literal keyword "output"
OutputKeyword == <<"o", "u", "t", "p", "u", "t">>

Mp4 == <<".", "m", "p", "4">>

(* ------------------------------ inputs ------------------------------- *)

\* An existing source file with a video extension: "/v/c.mp4"
PathClip == <<"/", "v", "/", "c", ".", "m", "p", "4">>

\* An existing source file with an upper-case video extension: "/v/C.MP4"
PathUpper == <<"/", "v", "/", "C", ".", "M", "P", "4">>

\* An existing source file without a video extension: "/v/k"
PathNoExt == <<"/", "v", "/", "k">>

\* A path at which no file exists: "/v/n.mp4"
PathMissing == <<"/", "v", "/", "n", ".", "m", "p", "4">>

PathHandles == {PathClip, PathUpper, PathNoExt, PathMissing}

\* The video argument: what kind of value it is, and how its methods behave.
\*   save   : has save_video / write_to_file / a callable save
\*   stream : has a callable write_to, or read (the code opens the file itself)
\*   path   : str or os.PathLike
\*   other  : none of the above (the last-resort probing)
Handles ==
    [kind : {"save"}, path : {None}, outcome : {"ok", "raise", "nofile"}]
    \cup [kind : {"stream"}, path : {None}, outcome : {"ok", "raise"}]
    \cup [kind : {"path"}, path : PathHandles, outcome : {"ok"}]
    \cup [kind : {"other"}, path : {None}, outcome : {"method", "tobytes", "none"}]

Durations == {-1, 0, 1}

\* An existing directory: "/o"
ExplicitDir == <<"/", "o">>

\* A file in a directory that does not exist yet: "/p/f.mp4"
ExplicitFile == <<"/", "p", "/", "f", ".", "m", "p", "4">>

\* A path below the regular file "/v/k": "/v/k/o"
BelowFile == <<"/", "v", "/", "k", "/", "o">>

\* " Output": the keyword, to be stripped and lower-cased
PaddedKeyword == <<" ", "O", "u", "t", "p", "u", "t">>

\* The temporary directory mkdtemp works in, and the prefix it uses (lines 77-83).
TempRoot(integration) == IF integration THEN ComfyTemp ELSE SysTemp

TempPrefix(integration) == IF integration THEN ComfyPrefix ELSE SysPrefix

WorkDir(integration, suffix) ==
    Join(TempRoot(integration), TempPrefix(integration) \o suffix)

WorkDirs(integration) == {WorkDir(integration, s) : s \in Suffixes}

\* A file next to the working directories whose path merely begins with the
\* path of the working directory of suffix "a": e.g. "/t/wax.mp4"
Sibling(integration) == WorkDir(integration, <<"a">>) \o <<"x">> \o Mp4

\* The output_path arguments.  Callers fix them before the call, so none of
\* them lies inside a directory mkdtemp is about to name.
OutputPaths(integration) ==
    {<<>>, <<" ">>, OutputKeyword, PaddedKeyword, ExplicitDir, ExplicitFile,
     PathUpper, BelowFile, Sibling(integration)}

(* ------------------------------- state ------------------------------- *)

Inv == 1..NumInv

VARIABLES
    files,                \* paths of the existing regular files
    dirs,                 \* paths of the existing directories
    COMFYUI_INTEGRATION,  \* whether `import folder_paths` succeeded (lines 9-14)
    host,                 \* what the installation offers when wrapping
    frame,                \* per invocation: its position and its local variables
    obs                   \* per invocation: what it did and what the caller got

vars == <<files, dirs, COMFYUI_INTEGRATION, host, frame, obs>>

\* No exception is pending.
NoExc == [cls |-> "None", kind |-> "None", text |-> <<>>]

\* No process has completed yet.
NoResult == [rc |-> 0, stderr |-> ""]

\* trimmed_video is not assigned yet.
NoVideo == [kind |-> "None", source |-> "None", path |-> None]

\* The host was not asked for a video object yet.
NoWrapEnv == [primary |-> "None", latest |-> "None", readable |-> FALSE]

\* The call is still running.
Running == [kind |-> "running", cls |-> "None", err |-> "None", text |-> <<>>,
            value |-> NoVideo]

\* The locals of an invocation that was just called (lines 66-73): temp_dir
\* is not assigned before the try block.
NewFrame(v, d, o, s) ==
    [pc |-> "mkdtemp", video |-> v, duration |-> d, output_path |-> o,
     save_to_output |-> s, temp_dir |-> Unbound, temp_input_path |-> None,
     temp_output_path |-> None, result |-> NoResult,
     trimmed_video |-> NoVideo, exc |-> NoExc]

IdleFrame ==
    [NewFrame([kind |-> "save", path |-> None, outcome |-> "ok"], 1, <<>>, FALSE)
        EXCEPT !.pc = "idle"]

NewObs(o) ==
    [arg_output_path |-> o,     \* the output_path argument as passed
     runs |-> <<>>,             \* the ffmpeg processes started, in order
     touched |-> {},            \* paths created, written, renamed or deleted
     inputReady |-> FALSE,      \* the input file was materialized and named
     resolved |-> FALSE,        \* the output location was resolved
     wrote |-> FALSE,           \* an ffmpeg process left a file at the output
     wrapEnv |-> NoWrapEnv,     \* what the host offered when wrapping
     cleanup |-> "none",        \* none / retained / removed / failed
     outcome |-> Running]       \* what reached the caller

\* What the installation offers when the output is wrapped: the primary class
\* (comfy_api.input_impl.video_types.VideoFromFile) imports and constructs,
\* fails to import, or raises another exception; the versioned class
\* (comfy_api.latest._input_impl.video_types.VideoFromFile) works or not;
\* the process can read the files ffmpeg wrote, or not.
Hosts ==
    [primary : {"ok", "ImportError", "Exception"}, latest : {"ok", "fails"},
     readable : BOOLEAN]

InitialDirs(integration, cwdOutput) ==
    {SysTemp, Cwd, Dirname(PathClip), ExplicitDir}
    \cup (IF integration THEN {ComfyOut} ELSE {})
    \cup (IF cwdOutput THEN {Join(Cwd, OutputKeyword)} ELSE {})

InitialFiles == {PathClip, PathUpper, PathNoExt}

\* One invocation, with every combination of arguments.
Init ==
    /\ COMFYUI_INTEGRATION \in BOOLEAN
    /\ host \in Hosts
    /\ \E cwdOutput \in BOOLEAN : dirs = InitialDirs(COMFYUI_INTEGRATION, cwdOutput)
    /\ files = InitialFiles
    /\ \E v \in Handles, d \in Durations, s \in BOOLEAN :
       \E o \in OutputPaths(COMFYUI_INTEGRATION) :
          /\ frame = [i \in Inv |-> IF i = 1 THEN NewFrame(v, d, o, s) ELSE IdleFrame]
          /\ obs = [i \in Inv |-> NewObs(IF i = 1 THEN o ELSE <<>>)]

(* --------------------- helpers shared by the steps ------------------- *)

\* os.path.exists
Exists(p) == p \in files \/ p \in dirs

\* os.path.abspath of a non-empty path without "." or ".." components
Abspath(p) == IF p[1] = Sep THEN p ELSE Join(Cwd, p)

\* from ..func import video_type: the recognised video extensions
video_type == {Mp4}

\* from ..func import set_file_name: the base name of the output, derived
\* from the name of the materialized input file
set_file_name(path) == Basename(path)

\* except Exception as e: raise ValueError(f"... {str(e)}") (lines 323-326):
\* the failure is wrapped, keeps its text, and the finally block runs next.
Raise(fr, kind, text) ==
    [fr EXCEPT !.pc = "finally",
               !.exc = [cls |-> "ValueError", kind |-> kind, text |-> text]]

\* os.makedirs(d, exist_ok=True) fails when d or an ancestor is a regular file.
MakedirsFails(d) == SelfAndAncestors(d) \cap files # {}

Touch(i, ps) == obs' = [obs EXCEPT ![i].touched = @ \cup ps]

(* ------------------------------ steps -------------------------------- *)

\* A directory naming that does not look at what exists.
FreeWorkDirsAny(integration, existing) == WorkDirs(integration)

\* tempfile.mkdtemp (lines 80, 83) names a directory that does not exist yet.
FreeWorkDirs(integration, existing) == WorkDirs(integration) \ existing

\* Lines 75-84: create the working directory.
Mkdtemp(i) ==
    /\ frame[i].pc = "mkdtemp"
    /\ UNCHANGED <<files, COMFYUI_INTEGRATION, host>>
    /\ \/ \E d \in FreeWorkDirs(COMFYUI_INTEGRATION, files \cup dirs) :
            /\ ~MakedirsFails(TempRoot(COMFYUI_INTEGRATION))
            /\ dirs' = dirs \cup {TempRoot(COMFYUI_INTEGRATION), d}
            /\ frame' = [frame EXCEPT ![i].pc = "materialize", ![i].temp_dir = d]
            /\ Touch(i, {d})
       \/ \* makedirs or mkdtemp raises OSError; temp_dir stays unassigned
          /\ frame' = [frame EXCEPT ![i] = Raise(@, "WorkDirFailed", <<"mkdtemp">>)]
          /\ UNCHANGED <<dirs, obs>>

\* Lines 86-166: reduce the video argument to a file.
Materialize(i) ==
    LET fr == frame[i]
        v == fr.video
        p == Join(fr.temp_dir, InputVideoName)
        withPath == [fr EXCEPT !.temp_input_path = p, !.pc = "verify_input"]
        canCreate == Dirname(p) \in dirs
    IN
    /\ fr.pc = "materialize"
    /\ UNCHANGED <<dirs, COMFYUI_INTEGRATION, host>>
    /\ IF v.kind = "path"
       THEN \* lines 104-108
            /\ UNCHANGED <<files, obs>>
            /\ frame' = [frame EXCEPT ![i] =
                 IF Exists(v.path)
                 THEN [fr EXCEPT !.temp_input_path = v.path, !.pc = "verify_input"]
                 ELSE Raise([fr EXCEPT !.temp_input_path = v.path],
                            "InputNotFound", v.path)]
       ELSE IF v.kind = "save"
       THEN \* lines 87-98: the object writes the file itself
            IF v.outcome = "ok" /\ canCreate
            THEN /\ files' = files \cup {p}
                 /\ Touch(i, {p})
                 /\ frame' = [frame EXCEPT ![i] = withPath]
            ELSE IF v.outcome = "nofile"
            THEN /\ UNCHANGED <<files, obs>>
                 /\ frame' = [frame EXCEPT ![i] = withPath]
            ELSE /\ UNCHANGED <<files, obs>>
                 /\ frame' = [frame EXCEPT ![i] =
                      Raise(withPath, "MaterializeFailed", <<"save">>)]
       ELSE IF ~canCreate
       THEN \* open(temp_input_path, "wb") fails
            /\ UNCHANGED <<files, obs>>
            /\ frame' = [frame EXCEPT ![i] = Raise(withPath, "MaterializeFailed", <<"open">>)]
       ELSE \* lines 99-103, 109-116, 117-166: open(..., "wb") creates the file
            /\ files' = files \cup {p}
            /\ Touch(i, {p})
            /\ frame' = [frame EXCEPT ![i] =
                 IF v.kind = "stream"
                 THEN IF v.outcome = "ok"
                      THEN withPath
                      ELSE Raise(withPath, "MaterializeFailed", <<"write">>)
                 ELSE IF v.outcome = "none"
                      THEN Raise(withPath, "UnsupportedInputFormat", <<"probes">>)
                      ELSE withPath]

\* Lines 168-170: the materialized file must exist.
VerifyInput(i) ==
    LET fr == frame[i] IN
    /\ fr.pc = "verify_input"
    /\ UNCHANGED <<files, dirs, COMFYUI_INTEGRATION, host, obs>>
    /\ frame' = [frame EXCEPT ![i] =
         IF Exists(fr.temp_input_path)
         THEN [fr EXCEPT !.pc = "rename"]
         ELSE Raise(fr, "InputNotCreated", <<"no input file">>)]

\* Line 173: the name ends with a recognised video extension.
HasVideoExtension(path) == \E e \in video_type : EndsWith(Lower(path), e)

\* Lines 172-177: give the input file a video extension.
RenameInput(i) ==
    LET fr == frame[i]
        old == fr.temp_input_path
        new == old \o Mp4
    IN
    /\ fr.pc = "rename"
    /\ UNCHANGED <<dirs, COMFYUI_INTEGRATION, host>>
    /\ IF HasVideoExtension(old)
       THEN /\ UNCHANGED files
            /\ obs' = [obs EXCEPT ![i].inputReady = TRUE]
            /\ frame' = [frame EXCEPT ![i].pc = "validate"]
       ELSE IF old \in files /\ new \notin dirs
       THEN \* os.rename replaces an existing file at the new name
            /\ files' = (files \ {old}) \cup {new}
            /\ obs' = [obs EXCEPT ![i].inputReady = TRUE,
                                  ![i].touched = @ \cup {old, new}]
            /\ frame' = [frame EXCEPT ![i].pc = "validate",
                                      ![i].temp_input_path = new]
       ELSE /\ UNCHANGED <<files, obs>>
            /\ frame' = [frame EXCEPT ![i] = Raise(fr, "RenameFailed", old)]

\* A validation that lets a zero duration through.
DurationInvalidStrict(duration) == duration < 0

\* Line 180: the duration is rejected.
DurationInvalid(duration) == duration <= 0

\* Lines 179-181: the duration must be positive.
ValidateDuration(i) ==
    LET fr == frame[i] IN
    /\ fr.pc = "validate"
    /\ UNCHANGED <<files, dirs, COMFYUI_INTEGRATION, host, obs>>
    /\ frame' = [frame EXCEPT ![i] =
         IF DurationInvalid(fr.duration)
         THEN Raise(fr, "InvalidDuration", <<"duration">>)
         ELSE [fr EXCEPT !.pc = "resolve"]]

\* A resolution that sends the keyword to the working directory when the
\* host integration is absent.
ResolveTargetEphemeral(output_path, save_to_output, integration, temp_dir, file_name, existing) ==
    LET name == TrimmedPrefix \o file_name
        abs == Abspath(Strip(output_path))
    IN
    IF save_to_output /\ integration
    THEN [output_path |-> output_path,
          temp_output_path |-> Join(Join(ComfyOut, VideoSubdirName), name),
          makedirs |-> Join(ComfyOut, VideoSubdirName)]
    ELSE IF IsNonBlank(output_path) /\ Lower(Strip(output_path)) = OutputKeyword
    THEN [output_path |-> output_path,
          temp_output_path |-> IF integration THEN Join(ComfyOut, name)
                               ELSE Join(temp_dir, name),
          makedirs |-> None]
    ELSE IF IsNonBlank(output_path)
    THEN IF abs \in existing
         THEN [output_path |-> abs,
               temp_output_path |-> Join(abs, name),
               makedirs |-> None]
         ELSE [output_path |-> abs,
               temp_output_path |-> abs,
               makedirs |-> Dirname(abs)]
    ELSE [output_path |-> output_path,
          temp_output_path |-> Join(temp_dir, name),
          makedirs |-> None]

\* Lines 183-214: where the trimmed file goes.  The result gives the new
\* value of output_path (line 201 reassigns it), temp_output_path, and the
\* directory os.makedirs is called on (None when it is not called).
ResolveTarget(output_path, save_to_output, integration, temp_dir, file_name, existing) ==
    LET name == TrimmedPrefix \o file_name
        abs == Abspath(Strip(output_path))
    IN
    IF save_to_output /\ integration
    THEN [output_path |-> output_path,
          temp_output_path |-> Join(Join(ComfyOut, VideoSubdirName), name),
          makedirs |-> Join(ComfyOut, VideoSubdirName)]
    ELSE IF IsNonBlank(output_path)
    THEN IF Lower(Strip(output_path)) = OutputKeyword /\ integration
         THEN [output_path |-> output_path,
               temp_output_path |-> Join(ComfyOut, name),
               makedirs |-> None]
         ELSE IF abs \in existing
         THEN [output_path |-> abs,
               temp_output_path |-> Join(abs, name),
               makedirs |-> None]
         ELSE [output_path |-> abs,
               temp_output_path |-> abs,
               makedirs |-> Dirname(abs)]
    ELSE [output_path |-> output_path,
          temp_output_path |-> Join(temp_dir, name),
          makedirs |-> None]

ResolveOutput(i) ==
    LET fr == frame[i]
        r == ResolveTarget(fr.output_path, fr.save_to_output, COMFYUI_INTEGRATION,
                           fr.temp_dir, set_file_name(fr.temp_input_path),
                           dirs)
        set == [fr EXCEPT !.output_path = r.output_path,
                          !.temp_output_path = r.temp_output_path]
        new == IF r.makedirs = None THEN {} ELSE SelfAndAncestors(r.makedirs) \ dirs
    IN
    /\ fr.pc = "resolve"
    /\ UNCHANGED <<files, COMFYUI_INTEGRATION, host>>
    /\ IF r.makedirs # None /\ MakedirsFails(r.makedirs)
       THEN /\ UNCHANGED dirs
            /\ obs' = [obs EXCEPT ![i].resolved = TRUE]
            /\ frame' = [frame EXCEPT ![i] = Raise(set, "ResolveFailed", r.makedirs)]
       ELSE /\ dirs' = dirs \cup new
            /\ obs' = [obs EXCEPT ![i].resolved = TRUE, ![i].touched = @ \cup new]
            /\ frame' = [frame EXCEPT ![i] = [set EXCEPT !.pc = "copy"]]

\* The diagnostic text a failing ffmpeg process leaves on its error stream:
\* it names the command that failed.
Diagnostic(form) == IF form = "copy" THEN "copy failed" ELSE "re-encode failed"

\* What one ffmpeg process may do (subprocess.run, lines 235-237 and 260-265):
\* its exit code and whether it leaves a file at the output path (complete
\* or partial; -y overwrites).  It cannot succeed without its input, it
\* refuses to write over its input, and it cannot write where there is no
\* directory.
FfmpegOutcomes(input, output) ==
    {r \in [rc : {0, 1}, wrote : BOOLEAN] :
        /\ input \notin files \/ input = output => r.rc = 1 /\ ~r.wrote
        /\ r.wrote => Dirname(output) \in dirs /\ output \notin dirs}

\* The command lines 218-230 and 244-258 build.
Command(form, fr) ==
    [form |-> form, input |-> fr.temp_input_path, t |-> fr.duration,
     output |-> fr.temp_output_path]

\* subprocess.run: the process runs to completion and its result is kept.
Completed(form, r) ==
    [rc |-> r.rc, stderr |-> IF r.rc = 0 THEN "" ELSE Diagnostic(form)]

RunFfmpeg(i, form, r) ==
    LET fr == frame[i]
        cmd == Command(form, fr)
    IN
    /\ files' = IF r.wrote THEN files \cup {cmd.output} ELSE files
    /\ obs' = [obs EXCEPT
                 ![i].runs = Append(@, [cmd |-> cmd, rc |-> r.rc,
                                        stderr |-> Completed(form, r).stderr]),
                 ![i].wrote = @ \/ r.wrote,
                 ![i].touched = IF r.wrote THEN @ \cup {cmd.output} ELSE @]

\* Line 240 / line 267: the process failed.
Failed(result) == result.rc # 0

\* Lines 216-237: the stream-copy attempt.
Copy(i) ==
    LET fr == frame[i] IN
    /\ fr.pc = "copy"
    /\ UNCHANGED <<dirs, COMFYUI_INTEGRATION, host>>
    /\ \E r \in FfmpegOutcomes(fr.temp_input_path, fr.temp_output_path) :
          /\ RunFfmpeg(i, "copy", r)
          /\ frame' = [frame EXCEPT ![i].result = Completed("copy", r),
                                    ![i].pc = IF Failed(r) THEN "reencode"
                                              ELSE "verify_output"]

\* A failure that reports the first attempt's diagnostic.
TrimFailedTextFirst(first, second) == <<first.stderr>>

\* Line 268: the text of the failure when the trim failed.
TrimFailedText(first, second) == <<second.stderr>>

\* Lines 239-268: the re-encode attempt, after a failed copy.
Reencode(i) ==
    LET fr == frame[i] IN
    /\ fr.pc = "reencode"
    /\ UNCHANGED <<dirs, COMFYUI_INTEGRATION, host>>
    /\ \E r \in FfmpegOutcomes(fr.temp_input_path, fr.temp_output_path) :
          LET res == Completed("reencode", r) IN
          /\ RunFfmpeg(i, "reencode", r)
          /\ frame' = [frame EXCEPT ![i] =
               IF Failed(r)
               THEN Raise([fr EXCEPT !.result = res], "TrimFailed",
                          TrimFailedText(fr.result, res))
               ELSE [fr EXCEPT !.result = res, !.pc = "verify_output"]]

\* Lines 272-274: the tool must have produced the file.
VerifyOutput(i) ==
    LET fr == frame[i] IN
    /\ fr.pc = "verify_output"
    /\ UNCHANGED <<files, dirs, COMFYUI_INTEGRATION, host, obs>>
    /\ frame' = [frame EXCEPT ![i] =
         IF Exists(fr.temp_output_path)
         THEN [fr EXCEPT !.pc = "wrap"]
         ELSE Raise(fr, "OutputMissing", fr.temp_output_path)]

\* A wrapping that returns the raw bytes when no video class works.
WrapResultBytes(path, env) ==
    IF env.primary = "ok"
    THEN [kind |-> "VideoFromFile", source |-> "path", path |-> path]
    ELSE IF env.latest = "ok"
    THEN [kind |-> "VideoFromFileLatest", source |-> "path", path |-> path]
    ELSE IF env.readable
    THEN [kind |-> "bytes", source |-> "BytesIO", path |-> path]
    ELSE [kind |-> "str", source |-> "path", path |-> path]

\* Lines 276-319: the value of trimmed_video.
WrapResult(path, env) ==
    IF env.primary = "ok"
    THEN \* line 283
         [kind |-> "VideoFromFile", source |-> "path", path |-> path]
    ELSE IF env.primary = "ImportError"
    THEN \* lines 286-303: the file is read into a BytesIO first
         IF env.readable /\ env.latest = "ok"
         THEN [kind |-> "VideoFromFileLatest", source |-> "BytesIO", path |-> path]
         ELSE [kind |-> "str", source |-> "path", path |-> path]
    ELSE \* lines 304-319
         IF env.latest = "ok"
         THEN [kind |-> "VideoFromFileLatest", source |-> "path", path |-> path]
         ELSE [kind |-> "str", source |-> "path", path |-> path]

\* Lines 276-321: wrap the output file and return.
Wrap(i) ==
    LET fr == frame[i] IN
    /\ fr.pc = "wrap"
    /\ UNCHANGED <<files, dirs, COMFYUI_INTEGRATION, host>>
    /\ LET env == [primary |-> host.primary, latest |-> host.latest,
                   readable |-> host.readable /\ fr.temp_output_path \in files] IN
          /\ obs' = [obs EXCEPT ![i].wrapEnv = env]
          /\ frame' = [frame EXCEPT
                         ![i].trimmed_video = WrapResult(fr.temp_output_path, env),
                         ![i].pc = "finally"]

\* A cleanup that always removes the working directory.
ShouldCleanupAlways(output_path, temp_output_path, temp_dir) == TRUE

\* A cleanup that removes the working directory whenever the output was
\* resolved to a path outside it, whether or not output_path was given.
ShouldCleanupAnyDestination(output_path, temp_output_path, temp_dir) ==
    /\ temp_output_path # None
    /\ ~StartsWith(temp_output_path, temp_dir)

\* A cleanup that does not look at where the output is.
ShouldCleanupResolved(output_path, temp_output_path, temp_dir) ==
    temp_output_path # None

\* Lines 336-341 and 351-356: whether the working directory is removed.
ShouldCleanup(output_path, temp_output_path, temp_dir) ==
    /\ IsNonBlank(output_path)
    /\ temp_output_path # None
    /\ ~StartsWith(temp_output_path, temp_dir)

\* What shutil.rmtree(d) removes: d and everything below it.
Tree(d) == {p \in files \cup dirs : p = d \/ Inside(p, d)}

\* What reaches the caller once the finally block has ended normally.
Delivered(fr) ==
    IF fr.exc # NoExc
    THEN [kind |-> "raise", cls |-> fr.exc.cls, err |-> fr.exc.kind,
          text |-> fr.exc.text, value |-> NoVideo]
    ELSE [kind |-> "return", cls |-> "None", err |-> "None", text |-> <<>>,
          value |-> fr.trimmed_video]

\* Lines 328-370: the finally block, then the call ends.
Finally(i) ==
    LET fr == frame[i] IN
    /\ fr.pc = "finally"
    /\ UNCHANGED <<COMFYUI_INTEGRATION, host>>
    /\ frame' = [frame EXCEPT ![i].pc = "done"]
    /\ IF fr.temp_dir = Unbound
       THEN \* line 330 reads a local that was never assigned
            /\ UNCHANGED <<files, dirs>>
            /\ obs' = [obs EXCEPT ![i].outcome =
                 [kind |-> "raise", cls |-> "UnboundLocalError", err |-> "None",
                  text |-> <<"temp_dir">>, value |-> NoVideo]]
       ELSE IF ~Exists(fr.temp_dir)
       THEN /\ UNCHANGED <<files, dirs>>
            /\ obs' = [obs EXCEPT ![i].outcome = Delivered(fr)]
       ELSE IF ShouldCleanup(fr.output_path, fr.temp_output_path, fr.temp_dir)
       THEN \* line 364: shutil.rmtree(temp_dir, ignore_errors=True)
            \/ /\ files' = files \ Tree(fr.temp_dir)
               /\ dirs' = dirs \ Tree(fr.temp_dir)
               /\ obs' = [obs EXCEPT ![i].outcome = Delivered(fr),
                                     ![i].cleanup = "removed",
                                     ![i].touched = @ \cup Tree(fr.temp_dir)]
            \/ /\ UNCHANGED <<files, dirs>>
               /\ obs' = [obs EXCEPT ![i].outcome = Delivered(fr),
                                     ![i].cleanup = "failed"]
       ELSE /\ UNCHANGED <<files, dirs>>
            /\ obs' = [obs EXCEPT ![i].outcome = Delivered(fr),
                                  ![i].cleanup = "retained"]

\* Concurrent invocations: every slot is called, on a shared file system,
\* with an in-memory video that is saved into the working directory, and
\* either no output_path (the trimmed file stays in the working directory,
\* which is kept) or an explicit output file (the working directory is
\* removed at the end).
ConcCalls ==
    <<[video |-> [kind |-> "save", path |-> None, outcome |-> "ok"],
       output_path |-> <<>>],
      [video |-> [kind |-> "save", path |-> None, outcome |-> "ok"],
       output_path |-> ExplicitFile]>>

\* Which call each slot makes.  The slots are interchangeable, so the first
\* two take every pair of calls in order; further slots make the first call.
ConcAssignments ==
    {k \in [Inv -> 1..Len(ConcCalls)] :
        \A i \in Inv : /\ i = 2 => k[1] <= k[2]
                       /\ i > 2 => k[i] = 1}

InitConc ==
    /\ COMFYUI_INTEGRATION = FALSE
    /\ host = [primary |-> "ok", latest |-> "ok", readable |-> TRUE]
    /\ dirs = InitialDirs(COMFYUI_INTEGRATION, FALSE)
    /\ files = InitialFiles
    /\ \E k \in ConcAssignments :
          /\ frame = [i \in Inv |-> NewFrame(ConcCalls[k[i]].video, 1,
                                              ConcCalls[k[i]].output_path, FALSE)]
          /\ obs = [i \in Inv |-> NewObs(ConcCalls[k[i]].output_path)]

Step(i) ==
    \/ Mkdtemp(i)
    \/ Materialize(i)
    \/ VerifyInput(i)
    \/ RenameInput(i)
    \/ ValidateDuration(i)
    \/ ResolveOutput(i)
    \/ Copy(i)
    \/ Reencode(i)
    \/ VerifyOutput(i)
    \/ Wrap(i)
    \/ Finally(i)

Next == \E i \in Inv : Step(i)

Spec == Init /\ [][Next]_vars

SpecConc == InitConc /\ [][Next]_vars

(* ------------------------------ claims ------------------------------- *)

Done(i) == frame[i].pc = "done"

HasWorkDir(i) == frame[i].temp_dir # Unbound

\* The output_path argument is the keyword, up to surrounding blanks and case.
IsKeyword(o) == IsNonBlank(o) /\ Lower(Strip(o)) = OutputKeyword

\* C1 (as claimed): every call with duration <= 0 whose working directory was
\* created fails with the invalid-duration error, whatever the video
\* argument is, and starts no ffmpeg process.
C1_Original ==
    \A i \in Inv :
        Done(i) /\ HasWorkDir(i) /\ frame[i].duration <= 0
        => /\ obs[i].outcome.kind = "raise"
           /\ obs[i].outcome.err = "InvalidDuration"
           /\ obs[i].runs = <<>>

\* C1 (amended): a call with duration <= 0 never starts an ffmpeg process and
\* always fails; the failure is the invalid-duration error exactly when the
\* working directory was created and the input file was materialized and
\* named, and otherwise it is the failure of that earlier step.
C1_InvalidDuration ==
    \A i \in Inv :
        frame[i].duration <= 0
        => /\ obs[i].runs = <<>>
           /\ Done(i) =>
                /\ obs[i].outcome.kind = "raise"
                /\ obs[i].inputReady <=> obs[i].outcome.err = "InvalidDuration"
                /\ ~obs[i].inputReady =>
                     \/ obs[i].outcome.cls = "UnboundLocalError"
                     \/ obs[i].outcome.err \in
                          {"InputNotFound", "MaterializeFailed",
                           "UnsupportedInputFormat", "InputNotCreated", "RenameFailed"}

\* C1 (witness): a call with duration 0 whose input was materialized has
\* ended with the invalid-duration error, having started no process.
C1_Witness ==
    \E i \in Inv :
        /\ Done(i) /\ frame[i].duration = 0
        /\ obs[i].inputReady
        /\ obs[i].outcome.err = "InvalidDuration"
        /\ obs[i].runs = <<>>

\* C2: the copy command runs first; the re-encode command runs if and only
\* if the copy exited non-zero, with the same input, output and duration;
\* the call fails with TrimFailed exactly when both exited non-zero, and the
\* failure then carries the diagnostic of the re-encode attempt.
C2_TwoTierTrim ==
    \A i \in Inv :
        LET r == obs[i].runs
            pastTrim == frame[i].pc \in {"verify_output", "wrap", "finally", "done"}
        IN
        /\ Len(r) <= 2
        /\ Len(r) >= 1 =>
             /\ r[1].cmd.form = "copy"
             /\ r[1].cmd.input = frame[i].temp_input_path
             /\ r[1].cmd.output = frame[i].temp_output_path
             /\ r[1].cmd.t = frame[i].duration
        /\ Len(r) = 2 =>
             /\ r[2].cmd = [r[1].cmd EXCEPT !.form = "reencode"]
             /\ r[1].rc # 0
        /\ Len(r) = 1 /\ r[1].rc # 0 => frame[i].pc = "reencode"
        /\ pastTrim =>
             (frame[i].exc.kind = "TrimFailed"
                <=> Len(r) = 2 /\ r[1].rc # 0 /\ r[2].rc # 0)
        /\ Done(i) /\ Len(r) = 2 /\ r[2].rc # 0 =>
             /\ obs[i].outcome.kind = "raise"
             /\ obs[i].outcome.err = "TrimFailed"
             /\ obs[i].outcome.text = <<r[2].stderr>>
             /\ obs[i].outcome.text # <<r[1].stderr>>

\* C2 (witness): both attempts ran and failed, and the call has ended.
C2_Witness ==
    \E i \in Inv :
        /\ Done(i) /\ Len(obs[i].runs) = 2
        /\ obs[i].runs[2].rc # 0
        /\ obs[i].outcome.err = "TrimFailed"

DestinationRequested(i) ==
    \/ IsNonBlank(obs[i].arg_output_path)
    \/ frame[i].save_to_output /\ COMFYUI_INTEGRATION

\* shutil.rmtree was called on the working directory.
CleanupPerformed(i) == obs[i].cleanup \in {"removed", "failed"}

\* C4 (as claimed): at the end of a call that resolved its output, the
\* working directory is deleted if and only if the output path does not lie
\* inside it and an explicit or managed destination was requested.
C4_Original ==
    \A i \in Inv :
        Done(i) /\ HasWorkDir(i) /\ obs[i].resolved
        => (CleanupPerformed(i)
              <=> /\ ~Inside(frame[i].temp_output_path, frame[i].temp_dir)
                  /\ DestinationRequested(i))

\* C4 (amended): at the end of a call the working directory is deleted
\* (rmtree, errors ignored) if and only if the output_path argument is not
\* blank, the output location was resolved, and the resolved path, as a
\* string, does not begin with the working directory's path.  So an explicit
\* output_path leads to deletion unless its text begins with the working
\* directory's path; the managed-save flag alone (blank output_path) and the
\* ephemeral case leave the working directory in place, and in the
\* ephemeral case a successful call leaves the output file inside it.
C4_CleanupRule ==
    \A i \in Inv :
        Done(i) /\ HasWorkDir(i)
        => /\ CleanupPerformed(i)
                <=> /\ IsNonBlank(obs[i].arg_output_path)
                    /\ obs[i].resolved
                    /\ ~StartsWith(frame[i].temp_output_path, frame[i].temp_dir)
           /\ obs[i].cleanup = "removed" => ~Exists(frame[i].temp_dir)
           /\ obs[i].cleanup # "removed" => frame[i].temp_dir \in dirs
           /\ ~IsNonBlank(obs[i].arg_output_path) => obs[i].cleanup = "retained"
           /\ /\ ~IsNonBlank(obs[i].arg_output_path)
              /\ ~(frame[i].save_to_output /\ COMFYUI_INTEGRATION)
              /\ obs[i].outcome.kind = "return"
              => /\ Inside(frame[i].temp_output_path, frame[i].temp_dir)
                 /\ frame[i].temp_output_path \in files

\* C4 (witness): a successful call with the managed-save flag alone has
\* written outside the working directory and kept the working directory.
C4_Witness ==
    \E i \in Inv :
        /\ Done(i) /\ obs[i].outcome.kind = "return"
        /\ frame[i].save_to_output /\ COMFYUI_INTEGRATION
        /\ obs[i].arg_output_path = <<>>
        /\ ~Inside(frame[i].temp_output_path, frame[i].temp_dir)
        /\ obs[i].cleanup = "retained"

\* The name of the output file: trimmed_<baseName>.
OutputName(i) == TrimmedPrefix \o Basename(frame[i].temp_input_path)

\* C5 (as claimed): with the keyword as output_path and no host integration
\* the output file is <workDir>/trimmed_<baseName>, and nothing named after
\* the keyword is created outside the working directory.
C5_Original ==
    \A i \in Inv :
        /\ obs[i].resolved /\ ~COMFYUI_INTEGRATION
        /\ IsKeyword(obs[i].arg_output_path)
        => /\ frame[i].temp_output_path = Join(frame[i].temp_dir, OutputName(i))
           /\ \A p \in obs[i].touched : Inside(p, frame[i].temp_dir) \/ p = frame[i].temp_dir

\* C5 (amended): with the keyword as output_path and no host integration the
\* keyword is an ordinary relative path: the stripped text is resolved
\* against the current directory; if that path is an existing directory the
\* output file is trimmed_<baseName> in it, otherwise the output file is
\* that path itself, outside the working directory.
C5_KeywordIsRelativePath ==
    \A i \in Inv :
        /\ obs[i].resolved /\ ~COMFYUI_INTEGRATION
        /\ IsKeyword(obs[i].arg_output_path)
        => LET target == Join(Cwd, Strip(obs[i].arg_output_path)) IN
           /\ frame[i].temp_output_path =
                IF target \in dirs THEN Join(target, OutputName(i)) ELSE target
           /\ ~Inside(frame[i].temp_output_path, frame[i].temp_dir)
           /\ frame[i].output_path = target

\* C5 (witness): without host integration the trimmed file was written into
\* the directory named after the keyword in the current directory, and the
\* call returned.
C5_Witness ==
    \E i \in Inv :
        /\ Done(i) /\ ~COMFYUI_INTEGRATION
        /\ obs[i].arg_output_path = OutputKeyword
        /\ frame[i].temp_output_path = Join(Join(Cwd, OutputKeyword), OutputName(i))
        /\ frame[i].temp_output_path \in files
        /\ obs[i].outcome.kind = "return"

\* The output was wrapped.
Wrapped(i) == obs[i].wrapEnv # NoWrapEnv

\* C6 (as claimed): wrapping never fails the call and returns the primary
\* video object, else the versioned one, else the raw bytes of the output
\* file, and the path string only when the bytes cannot be read.
C6_Original ==
    \A i \in Inv :
        Done(i) /\ Wrapped(i)
        => LET e == obs[i].wrapEnv
               v == obs[i].outcome.value
           IN
           /\ obs[i].outcome.kind = "return"
           /\ e.primary = "ok" => v.kind = "VideoFromFile"
           /\ e.primary # "ok" /\ e.latest = "ok" => v.kind = "VideoFromFileLatest"
           /\ e.primary # "ok" /\ e.latest # "ok" /\ e.readable => v.kind = "bytes"
           /\ e.primary # "ok" /\ e.latest # "ok" /\ ~e.readable => v.kind = "str"

\* C6 (amended): wrapping never fails the call and has three outcomes, never
\* raw bytes: the primary video object built from the output path; else the
\* versioned video object, built from an in-memory copy of the file when the
\* primary class could not be imported (and then only if the file could be
\* read) or from the output path when the primary class raised otherwise;
\* else the output path string.
C6_WrapTiers ==
    \A i \in Inv :
        Wrapped(i)
        => LET e == obs[i].wrapEnv
               v == frame[i].trimmed_video
           IN
           /\ v.path = frame[i].temp_output_path
           /\ v.kind \in {"VideoFromFile", "VideoFromFileLatest", "str"}
           /\ v.kind = "VideoFromFile" <=> e.primary = "ok"
           /\ v.kind = "VideoFromFileLatest"
                <=> /\ e.latest = "ok"
                    /\ \/ e.primary = "Exception"
                       \/ e.primary = "ImportError" /\ e.readable
           /\ v.source = "BytesIO"
                <=> v.kind = "VideoFromFileLatest" /\ e.primary = "ImportError"
           /\ Done(i) => obs[i].outcome.kind = "return" /\ obs[i].outcome.value = v

\* C6 (witness): neither video class worked, the file was readable, and the
\* call returned the path string.
C6_Witness ==
    \E i \in Inv :
        /\ Done(i) /\ Wrapped(i)
        /\ obs[i].wrapEnv.primary # "ok" /\ obs[i].wrapEnv.latest # "ok"
        /\ obs[i].wrapEnv.readable
        /\ obs[i].outcome.kind = "return"
        /\ obs[i].outcome.value.kind = "str"

\* The invocation has a working directory it has not removed.
Owns(i) == HasWorkDir(i) /\ obs[i].cleanup # "removed"

InTree(p, d) == p = d \/ Inside(p, d)

\* C7: invocations that hold a working directory at the same time hold
\* distinct ones; no invocation creates, writes, renames or deletes another
\* invocation's working directory or anything inside it (a path both have
\* touched can only be a name the first one released by removing its own
\* directory); so what an invocation put into its working directory stays
\* there until its own cleanup.
C7_Isolation ==
    \A i \in Inv : \A j \in Inv \ {i} :
        /\ Owns(i) /\ Owns(j) => frame[i].temp_dir # frame[j].temp_dir
        /\ Owns(j) =>
             /\ \A p \in obs[i].touched :
                  InTree(p, frame[j].temp_dir)
                  => HasWorkDir(i) /\ ~Owns(i) /\ InTree(p, frame[i].temp_dir)
             /\ \A p \in obs[j].touched :
                  InTree(p, frame[j].temp_dir) => Exists(p)

\* C7 (witness): two invocations have ended, one having removed its working
\* directory and the other having kept its own with its files in it.
C7_Witness ==
    \E i \in Inv : \E j \in Inv \ {i} :
        /\ Done(i) /\ Done(j)
        /\ obs[i].cleanup = "removed"
        /\ obs[j].cleanup = "retained"
        /\ obs[j].outcome.kind = "return"
        /\ Join(frame[j].temp_dir, InputVideoName) \in files
        /\ frame[j].temp_output_path \in files

\* C8 (as claimed): every failure reaches the caller as one descriptive
\* failure that carries the originating diagnostic text, with no result;
\* the cleanup never replaces the result or the original failure.
C8_Claim ==
    \A i \in Inv :
        Done(i)
        => IF frame[i].exc # NoExc
           THEN /\ obs[i].outcome.kind = "raise"
                /\ obs[i].outcome.cls = "ValueError"
                /\ obs[i].outcome.err = frame[i].exc.kind
                /\ obs[i].outcome.text = frame[i].exc.text
                /\ obs[i].outcome.value = NoVideo
           ELSE /\ obs[i].outcome.kind = "return"
                /\ obs[i].outcome.value = frame[i].trimmed_video

\* C9: when a call returns, a file exists at the resolved output path the
\* returned value refers to; the cleanup never removes a working directory
\* that contains the output file.
C9_OutputSurvives ==
    \A i \in Inv :
        Done(i) /\ obs[i].outcome.kind = "return"
        => /\ obs[i].outcome.value.path = frame[i].temp_output_path
           /\ frame[i].temp_output_path \in files
           /\ Inside(frame[i].temp_output_path, frame[i].temp_dir)
                => obs[i].cleanup = "retained"

\* C9 (witness): the call returned a file that lies outside its working
\* directory at a path that merely begins with the working directory's
\* path, and the working directory was kept.
C9_Witness ==
    \E i \in Inv :
        /\ Done(i) /\ obs[i].outcome.kind = "return"
        /\ obs[i].arg_output_path = Sibling(COMFYUI_INTEGRATION)
        /\ StartsWith(frame[i].temp_output_path, frame[i].temp_dir)
        /\ ~Inside(frame[i].temp_output_path, frame[i].temp_dir)
        /\ frame[i].temp_output_path \in files
        /\ obs[i].cleanup = "retained"

\* C10 (as claimed): when the video argument is the path of an existing
\* file, a file still exists at exactly that path when the call has ended,
\* and no file that existed before the call has gone.
C10_Claim ==
    \A i \in Inv :
        /\ Done(i)
        /\ frame[i].video.kind = "path"
        /\ frame[i].video.path \in InitialFiles
        => /\ frame[i].video.path \in files
           /\ InitialFiles \subseteq files
====
